---- MODULE Spec2Model ----
(***************************************************************************)
(* A model of the Universe of src/src/lib.rs: a toroidal Game of Life grid *)
(* stored as a row-major Vec<Cell>, with its resize, toggle, set_cells,    *)
(* tick, live_neighbor_count and Display operations.                       *)
(*                                                                         *)
(* u32 arithmetic is modelled at its real width.  The result of a u32      *)
(* operation is the pair <<hi, lo>> standing for hi * 2^16 + lo, so that   *)
(* products that wrap around 2^32 are computed exactly.  Every width,      *)
(* height, row and column held in the state is below 2^31 and is kept as a *)
(* plain number.                                                           *)
(***************************************************************************)
EXTENDS Integers, Sequences, FiniteSets, TLC

\* ------------------------------------------------------------------ bounds

\* Largest small dimension and coordinate handed to the operations.
MaxDim == 3
\* Largest Vec<Cell> on which the cell operations are explored.
MaxCells == 9
\* Longest slice handed to set_cells.
MaxPairs == 2

\* ------------------------------------------------------- program constants

Dead == 0
Alive == 1
DefaultWidth == 64
DefaultHeight == 64
DeadGlyph == 9723
AliveGlyph == 9724
Newline == 10

\* ------------------------------------------------------- u32 arithmetic

RECURSIVE Pow2(_)
Pow2(n) == IF n = 0 THEN 1 ELSE 2 * Pow2(n - 1)

\* The base of the two 16-bit halves of a u32.
Half == Pow2(16)

\* The u32 holding n, for n < 2^31.
U32(n) == <<n \div Half, n % Half>>

\* x + y on u32: the wrapped sum and whether the true sum exceeds u32::MAX.
U32Add(x, y) ==
    LET lo == x[2] + y[2]
        hi == x[1] + y[1] + (lo \div Half)
    IN  [val |-> <<hi % Half, lo % Half>>, ovf |-> hi >= Half]

\* a * b on u32, for a, b < 2^31: the wrapped product and whether the true
\* product exceeds u32::MAX (schoolbook multiplication on the halves, the
\* low product split once more so that no partial product reaches 2^31).
U32Mul(a, b) ==
    LET a1  == a \div Half
        a0  == a % Half
        b1  == b \div Half
        b0  == b % Half
        t   == (a0 \div 256) * b0
        s   == (a0 % 256) * b0
        lo  == (t % 256) * 256 + (s % Half)
        phi == (t \div 256) + (s \div Half) + (lo \div Half)
        c1  == a1 * b0
        c2  == a0 * b1
        hi  == (c1 % Half) + (c2 % Half) + phi
    IN  [val |-> <<hi % Half, lo % Half>>,
         ovf |-> a1 * b1 > 0 \/ c1 >= Half \/ c2 >= Half \/ hi >= Half]

\* ------------------------------------------------------------- the grid

VARIABLES
    width,           \* Universe.width
    height,          \* Universe.height
    cells,           \* Universe.cells, cells[i + 1] is the Vec's element i
    panicked,        \* the last call panicked; the Universe is no longer used
    overflowChecks,  \* build profile: TRUE panics on overflow, FALSE wraps
    op,              \* the last operation called
    arg,             \* its arguments
    pre,             \* the Universe before it
    out              \* what it returned (render, live_neighbor_count)

vars == <<width, height, cells, panicked, overflowChecks, op, arg, pre, out>>

Universe(w, h, c) == [width |-> w, height |-> h, cells |-> c]

Self == Universe(width, height, cells)

DeadCells(n) == [i \in 1..n |-> Dead]

\* Cell::toggle with both arms of the match giving Dead.
ToggleKills(cell) == Dead

\* Cell::toggle
Toggle(cell) == IF cell = Alive THEN Dead ELSE Alive

\* get_index with row and column swapped.
GetIndexTransposed(u, row, column) ==
    LET m == U32Mul(column, u.width)
        s == U32Add(m.val, U32(row))
    IN  [val |-> s.val, ovf |-> m.ovf \/ s.ovf]

\* get_index with the height as the length of a row.
GetIndexByHeight(u, row, column) ==
    LET m == U32Mul(row, u.height)
        s == U32Add(m.val, U32(column))
    IN  [val |-> s.val, ovf |-> m.ovf \/ s.ovf]

\* Universe::get_index: row * self.width + column, as usize.
GetIndex(u, row, column) ==
    LET m == U32Mul(row, u.width)
        s == U32Add(m.val, U32(column))
    IN  [val |-> s.val, ovf |-> m.ovf \/ s.ovf]

\* A checked u32 operation panics on overflow; an unchecked one wraps.
OverflowPanic(chk, r) == chk /\ r.ovf

\* self.cells[idx] is within the Vec's bounds.
InBounds(u, idx) == idx[1] = 0 /\ idx[2] < Len(u.cells)

At(u, idx) == u.cells[idx[2] + 1]

\* Universe::new
NewUniverse ==
    Universe(DefaultWidth, DefaultHeight,
             [k \in 1..(DefaultWidth * DefaultHeight) |->
                 IF (k - 1) % 2 = 0 \/ (k - 1) % 7 = 0 THEN Alive ELSE Dead])

\* Universe::set_width: the width is stored before the product is taken.
SetWidthOp(u, w, chk) ==
    LET m == U32Mul(w, u.height)
    IN  IF OverflowPanic(chk, m)
        THEN [u |-> Universe(w, u.height, u.cells), panic |-> TRUE, len |-> U32(0)]
        ELSE [u |-> Universe(w, u.height,
                             IF m.val[1] = 0 /\ m.val[2] <= MaxCells + 1
                             THEN DeadCells(m.val[2]) ELSE <<>>),
              panic |-> FALSE, len |-> m.val]

\* Universe::set_height
SetHeightOp(u, h, chk) ==
    LET m == U32Mul(h, u.width)
    IN  IF OverflowPanic(chk, m)
        THEN [u |-> Universe(u.width, h, u.cells), panic |-> TRUE, len |-> U32(0)]
        ELSE [u |-> Universe(u.width, h,
                             IF m.val[1] = 0 /\ m.val[2] <= MaxCells + 1
                             THEN DeadCells(m.val[2]) ELSE <<>>),
              panic |-> FALSE, len |-> m.val]

\* Universe::toggle_cell
ToggleCellOp(u, row, col, chk) ==
    LET idx == GetIndex(u, row, col)
    IN  IF OverflowPanic(chk, idx) \/ ~InBounds(u, idx.val)
        THEN [u |-> u, panic |-> TRUE]
        ELSE [u |-> [u EXCEPT !.cells[idx.val[2] + 1] = Toggle(@)],
              panic |-> FALSE]

\* Universe::set_cells: the pairs are applied in order; a panic keeps what
\* the earlier pairs wrote.
RECURSIVE SetCellsLoop(_, _, _, _)
SetCellsLoop(u, list, k, chk) ==
    IF k > Len(list) THEN [u |-> u, panic |-> FALSE]
    ELSE LET idx == GetIndex(u, list[k][1], list[k][2])
         IN  IF OverflowPanic(chk, idx) \/ ~InBounds(u, idx.val)
             THEN [u |-> u, panic |-> TRUE]
             ELSE SetCellsLoop([u EXCEPT !.cells[idx.val[2] + 1] = Alive],
                               list, k + 1, chk)

SetCellsOp(u, list, chk) == SetCellsLoop(u, list, 1, chk)

\* The arrays [self.height - 1, 0, 1] and [self.width - 1, 0, 1].
DeltaRows(u) == <<u.height - 1, 0, 1>>
DeltaCols(u) == <<u.width - 1, 0, 1>>

\* live_neighbor_count without the continue: the cell itself is counted.
NeverSkipped(delta_row, delta_col) == FALSE

\* The pair the loops skip: delta_row == 0 && delta_col == 0.
Skipped(delta_row, delta_col) == delta_row = 0 /\ delta_col = 0

\* Universe::live_neighbor_count, the 9 (delta_row, delta_col) pairs in the
\* order of the two nested loops; k counts the pairs already visited.
RECURSIVE NeighborLoop(_, _, _, _, _, _)
NeighborLoop(u, row, column, k, count, chk) ==
    IF k = 9 THEN [count |-> count, panic |-> FALSE]
    ELSE LET delta_row == DeltaRows(u)[(k \div 3) + 1]
             delta_col == DeltaCols(u)[(k % 3) + 1]
         IN  IF Skipped(delta_row, delta_col)
             THEN NeighborLoop(u, row, column, k + 1, count, chk)
             ELSE LET neighbor_row == (row + delta_row) % u.height
                      neighbor_col == (column + delta_col) % u.width
                      idx == GetIndex(u, neighbor_row, neighbor_col)
                  IN  IF OverflowPanic(chk, idx) \/ ~InBounds(u, idx.val)
                      THEN [count |-> count, panic |-> TRUE]
                      ELSE NeighborLoop(u, row, column, k + 1,
                                        count + At(u, idx.val), chk)

\* height - 1 or width - 1 underflows (checked) or the remainder divides by
\* zero (unchecked) when a dimension is 0: a panic in either build.
LiveNeighborCount(u, row, column, chk) ==
    IF u.height = 0 \/ u.width = 0
    THEN [count |-> 0, panic |-> TRUE]
    ELSE NeighborLoop(u, row, column, 0, 0, chk)

\* The match of Universe::tick.
NextCell(cell, n) ==
    CASE cell = Alive /\ n < 2 -> Dead
      [] cell = Alive /\ (n = 2 \/ n = 3) -> Alive
      [] cell = Alive /\ n > 3 -> Dead
      [] cell = Dead /\ n = 3 -> Alive
      [] OTHER -> cell

\* tick counting the neighbours in the buffer it is writing to.
TickCellInPlace(u, next, row, col, idx, chk) ==
    LET n == LiveNeighborCount([u EXCEPT !.cells = next], row, col, chk)
    IN  [cell |-> NextCell(At(u, idx), n.count), panic |-> n.panic]

\* The value written to next[idx] for the cell at (row, col): the match on
\* self.cells[idx] and self.live_neighbor_count(row, col).
TickCell(u, next, row, col, idx, chk) ==
    LET n == LiveNeighborCount(u, row, col, chk)
    IN  [cell |-> NextCell(At(u, idx), n.count), panic |-> n.panic]

\* The two nested loops of Universe::tick over (row, col); next is the clone
\* being filled in.  A panic drops next and leaves self.cells as it was.
RECURSIVE TickLoop(_, _, _, _, _)
TickLoop(u, next, row, col, chk) ==
    IF row >= u.height \/ u.width = 0 THEN [u |-> [u EXCEPT !.cells = next], panic |-> FALSE]
    ELSE IF col >= u.width THEN TickLoop(u, next, row + 1, 0, chk)
    ELSE LET idx == GetIndex(u, row, col)
         IN  IF OverflowPanic(chk, idx) \/ ~InBounds(u, idx.val)
             THEN [u |-> u, panic |-> TRUE]
             ELSE LET c == TickCell(u, next, row, col, idx.val, chk)
                  IN  IF c.panic THEN [u |-> u, panic |-> TRUE]
                      ELSE TickLoop(u, [next EXCEPT ![idx.val[2] + 1] = c.cell],
                                    row, col + 1, chk)

TickOp(u, chk) == TickLoop(u, u.cells, 0, 0, chk)

Glyph(cell) == IF cell = Dead THEN DeadGlyph ELSE AliveGlyph

Min(a, b) == IF a <= b THEN a ELSE b

\* The loop of fmt over self.cells.chunks(width); i cells are already written.
RECURSIVE FmtLoop(_, _, _)
FmtLoop(u, i, f) ==
    IF i >= Len(u.cells) THEN f
    ELSE LET last == Min(i + u.width, Len(u.cells))
             line == [j \in 1..(last - i) |-> Glyph(u.cells[i + j])]
         IN  FmtLoop(u, last, f \o line \o <<Newline>>)

\* Universe::render: chunks(0) panics.
RenderOp(u) ==
    IF u.width = 0 THEN [out |-> <<>>, panic |-> TRUE]
    ELSE [out |-> FmtLoop(u, 0, <<>>), panic |-> FALSE]

\* ------------------------------------------------------------- inputs

\* 2^26 * 64 = 2^32, and OverflowDim * 3 = 2^32 + 2: resize arguments whose
\* product with a small dimension wraps to a small length.
OverflowDim == ((Pow2(30) - 1) \div 3) * 4 + 2
BigDims == {Pow2(26), OverflowDim}
DimArgs == (0..MaxDim) \cup BigDims
Coords == 0..MaxDim
RECURSIVE SeqsUpTo(_, _)
SeqsUpTo(S, n) ==
    IF n = 0 THEN {<<>>}
    ELSE LET shorter == SeqsUpTo(S, n - 1)
         IN  shorter \cup {Append(s, x) : s \in {t \in shorter : Len(t) = n - 1}, x \in S}

\* The pairs handed to set_cells: the first cells of the grid, its last
\* cell, and the places just past the end of a row and of a column.
PairArgs(u) ==
    {p \in {<<0, 0>>, <<0, 1>>, <<1, 0>>, <<u.height - 1, u.width - 1>>,
            <<0, u.width>>, <<u.height, 0>>} : p[1] >= 0 /\ p[2] >= 0}
PairLists(u) == SeqsUpTo(PairArgs(u), MaxPairs)

Small(u) == Len(u.cells) <= MaxCells

\* -------------------------------------------------------------- actions

\* The Universe is owned by one caller that calls its operations one after
\* the other: op is "idle" between two calls, and names the last call until
\* the caller has taken its result.
Init ==
    /\ overflowChecks \in BOOLEAN
    /\ width = NewUniverse.width
    /\ height = NewUniverse.height
    /\ cells = NewUniverse.cells
    /\ panicked = FALSE
    /\ op = "new"
    /\ arg = <<>>
    /\ pre = NewUniverse
    /\ out = <<>>

Callable == op = "idle" /\ ~panicked

Becomes(after, panic) ==
    /\ width' = after.width
    /\ height' = after.height
    /\ cells' = after.cells
    /\ panicked' = panic
    /\ pre' = Self
    /\ UNCHANGED overflowChecks

\* A fresh Universe replaces the one in use (or the one a panic left behind).
New ==
    /\ op = "idle" \/ panicked
    /\ Becomes(NewUniverse, FALSE)
    /\ op' = "new"
    /\ arg' = <<>>
    /\ out' = <<>>

SetWidth ==
    /\ Callable
    /\ \E w \in DimArgs :
         LET r == SetWidthOp(Self, w, overflowChecks)
         IN  /\ r.panic \/ (r.len[1] = 0 /\ r.len[2] <= MaxCells)
             /\ Becomes(r.u, r.panic)
             /\ arg' = <<w>>
    /\ op' = "set_width"
    /\ out' = <<>>

SetHeight ==
    /\ Callable
    /\ \E h \in DimArgs :
         LET r == SetHeightOp(Self, h, overflowChecks)
         IN  /\ r.panic \/ (r.len[1] = 0 /\ r.len[2] <= MaxCells)
             /\ Becomes(r.u, r.panic)
             /\ arg' = <<h>>
    /\ op' = "set_height"
    /\ out' = <<>>

Tick ==
    /\ Callable
    /\ Small(Self)
    /\ LET r == TickOp(Self, overflowChecks)
       IN  Becomes(r.u, r.panic)
    /\ op' = "tick"
    /\ arg' = <<>>
    /\ out' = <<>>

ToggleCell ==
    /\ Callable
    /\ Small(Self)
    /\ \E row \in Coords, col \in Coords :
         LET r == ToggleCellOp(Self, row, col, overflowChecks)
         IN  /\ Becomes(r.u, r.panic)
             /\ arg' = <<row, col>>
    /\ op' = "toggle_cell"
    /\ out' = <<>>

SetCells ==
    /\ Callable
    /\ Small(Self)
    /\ \E list \in PairLists(Self) :
         LET r == SetCellsOp(Self, list, overflowChecks)
         IN  /\ Becomes(r.u, r.panic)
             /\ arg' = list
    /\ op' = "set_cells"
    /\ out' = <<>>

Render ==
    /\ Callable
    /\ Small(Self)
    /\ LET r == RenderOp(Self)
       IN  /\ Becomes(Self, r.panic)
           /\ out' = r.out
    /\ op' = "render"
    /\ arg' = <<>>

\* live_neighbor_count is private: its callers (tick, the tests) pass
\* coordinates of the grid.
CountNeighbors ==
    /\ Callable
    /\ Small(Self)
    /\ \E row \in Coords, col \in Coords :
         /\ row < height
         /\ col < width
         /\ LET r == LiveNeighborCount(Self, row, col, overflowChecks)
            IN  /\ Becomes(Self, r.panic)
                /\ out' = <<r.count>>
         /\ arg' = <<row, col>>
    /\ op' = "live_neighbor_count"

\* The caller takes the result of a call that returned.
Return ==
    /\ op # "idle"
    /\ ~panicked
    /\ op' = "idle"
    /\ arg' = <<>>
    /\ out' = <<>>
    /\ pre' = Self
    /\ UNCHANGED <<width, height, cells, panicked, overflowChecks>>

Next ==
    \/ New
    \/ SetWidth
    \/ SetHeight
    \/ Tick
    \/ ToggleCell
    \/ SetCells
    \/ Render
    \/ CountNeighbors
    \/ Return

Spec == Init /\ [][Next]_vars

\* ------------------------------------------------- reference definitions

\* The data model's grid: cells holds exactly width * height entries (the
\* true product, not the wrapped one).
WellFormed(u) ==
    LET m == U32Mul(u.width, u.height)
    IN  ~m.ovf /\ m.val = U32(Len(u.cells))

Rows(u) == 0..(u.height - 1)
Cols(u) == 0..(u.width - 1)
InRange(u, row, col) == row < u.height /\ col < u.width

\* The cell at (row, col) of a well-formed grid, row-major.
CellAt(u, row, col) == u.cells[row * u.width + col + 1]

\* The 8 offsets of a cell's neighbours.
Offsets == {d \in {-1, 0, 1} \X {-1, 0, 1} : d # <<0, 0>>}

RECURSIVE SumOver(_, _, _, _)
SumOver(S, u, row, col) ==
    IF S = {} THEN 0
    ELSE LET d == CHOOSE x \in S : TRUE
         IN  CellAt(u, (row + d[1] + u.height) % u.height,
                       (col + d[2] + u.width) % u.width)
             + SumOver(S \ {d}, u, row, col)

\* The number of Alive cells over the 8 offsets, taken modulo the
\* dimensions and counted with multiplicity.
TorusCount(u, row, col) == SumOver(Offsets, u, row, col)

\* The Life rule as a table.
LifeRule(cell, n) ==
    IF cell = Alive
    THEN (IF n \in {2, 3} THEN Alive ELSE Dead)
    ELSE (IF n = 3 THEN Alive ELSE Dead)

\* The grid with every cell (r, c) moved to ((r + a) mod height, (c + b) mod width).
Shift(u, a, b) ==
    [u EXCEPT !.cells =
        [k \in 1..Len(u.cells) |->
            LET r == (k - 1) \div u.width
                c == (k - 1) % u.width
            IN  CellAt(u, (r + u.height - a) % u.height,
                          (c + u.width - b) % u.width)]]

\* The text of a grid: height rows of width glyphs, each ended by a newline.
GridText(u) ==
    [k \in 1..(u.height * (u.width + 1)) |->
        LET r == (k - 1) \div (u.width + 1)
            c == (k - 1) % (u.width + 1)
        IN  IF c = u.width THEN Newline
            ELSE IF CellAt(u, r, c) = Alive THEN AliveGlyph ELSE DeadGlyph]

ListedPairs(list) == {list[k] : k \in 1..Len(list)}

\* ------------------------------------------------------------- claims

\* C1: on a grid with width >= 1 and height >= 1, tick() returns and leaves
\* the dimensions as they were, and every cell (row, col) holds the Life rule
\* applied to its state before the tick and to live_neighbor_count(row, col)
\* of the grid before the tick (no cell sees an updated neighbour).
TickAppliesRule ==
    (op = "tick" /\ WellFormed(pre) /\ pre.width >= 1 /\ pre.height >= 1) =>
        /\ ~panicked
        /\ width = pre.width
        /\ height = pre.height
        /\ Len(cells) = Len(pre.cells)
        /\ \A row \in Rows(pre), col \in Cols(pre) :
              CellAt(Self, row, col) =
                  LifeRule(CellAt(pre, row, col),
                           LiveNeighborCount(pre, row, col, overflowChecks).count)

\* A tick of a grid of at least 2 rows and 3 columns in which a Dead cell
\* was born and an Alive cell stayed Alive.
TickWitness ==
    /\ op = "tick"
    /\ ~panicked
    /\ WellFormed(pre)
    /\ pre.width >= 3
    /\ pre.height >= 2
    /\ \E i, j \in 1..Len(cells) :
          /\ pre.cells[i] = Dead /\ cells[i] = Alive
          /\ pre.cells[j] = Alive /\ cells[j] = Alive

\* C2: after any sequence of calls that returned, the length of cells is
\* width * height.
LengthIsProduct == ~panicked => WellFormed(Self)

\* C3: toggle_cell or set_cells with a coordinate outside the grid fails and
\* changes no cell.
OutOfRangeRejected ==
    /\ (op = "toggle_cell" /\ WellFormed(pre) /\ ~InRange(pre, arg[1], arg[2])) =>
          panicked /\ cells = pre.cells
    /\ (op = "set_cells" /\ WellFormed(pre)
           /\ \E p \in ListedPairs(arg) : ~InRange(pre, p[1], p[2])) =>
          panicked /\ cells = pre.cells

\* C4: set_width(w) returns a grid of width w and the height as it was, with
\* w * height cells, all Dead; set_height(h) likewise; the same call again
\* changes nothing.
ResizeYieldsDeadGrid ==
    /\ op = "set_width" =>
          /\ ~panicked
          /\ width = arg[1]
          /\ height = pre.height
          /\ WellFormed(Self)
          /\ \A i \in 1..Len(cells) : cells[i] = Dead
          /\ SetWidthOp(Self, arg[1], overflowChecks).u = Self
    /\ op = "set_height" =>
          /\ ~panicked
          /\ height = arg[1]
          /\ width = pre.width
          /\ WellFormed(Self)
          /\ \A i \in 1..Len(cells) : cells[i] = Dead
          /\ SetHeightOp(Self, arg[1], overflowChecks).u = Self

\* C5: toggle_cell(row, col) with (row, col) in the grid returns, flips the
\* cell at (row, col), leaves every other cell and the dimensions as they
\* were, and the same call again gives back the grid before the first.
ToggleFlipsOneCell ==
    (op = "toggle_cell" /\ WellFormed(pre) /\ InRange(pre, arg[1], arg[2])) =>
        /\ ~panicked
        /\ width = pre.width
        /\ height = pre.height
        /\ Len(cells) = Len(pre.cells)
        /\ \A row \in Rows(pre), col \in Cols(pre) :
              CellAt(Self, row, col) =
                  IF <<row, col>> = arg THEN 1 - CellAt(pre, row, col)
                                        ELSE CellAt(pre, row, col)
        /\ ToggleCellOp(Self, arg[1], arg[2], overflowChecks) =
              [u |-> pre, panic |-> FALSE]

\* A toggle that killed a cell of a grid in which another cell is Alive.
ToggleWitness ==
    /\ op = "toggle_cell"
    /\ ~panicked
    /\ WellFormed(pre)
    /\ InRange(pre, arg[1], arg[2])
    /\ pre.width >= 2
    /\ pre.height >= 2
    /\ CellAt(pre, arg[1], arg[2]) = Alive
    /\ CellAt(Self, arg[1], arg[2]) = Dead
    /\ \E i \in 1..Len(cells) : cells[i] = Alive

\* C6: set_cells with pairs of the grid returns, leaves every listed cell
\* Alive, every other cell as it was, and the dimensions as they were.
SetCellsFrame ==
    (op = "set_cells" /\ WellFormed(pre)
        /\ \A p \in ListedPairs(arg) : InRange(pre, p[1], p[2])) =>
        /\ ~panicked
        /\ width = pre.width
        /\ height = pre.height
        /\ Len(cells) = Len(pre.cells)
        /\ \A row \in Rows(pre), col \in Cols(pre) :
              CellAt(Self, row, col) =
                  IF <<row, col>> \in ListedPairs(arg) THEN Alive
                                                       ELSE CellAt(pre, row, col)

\* A set_cells of two pairs, one on a Dead cell and one on an Alive cell,
\* on a grid that holds a Dead and an Alive cell that are not listed.
SetCellsWitness ==
    /\ op = "set_cells"
    /\ ~panicked
    /\ WellFormed(pre)
    /\ Len(arg) = 2
    /\ \A p \in ListedPairs(arg) : InRange(pre, p[1], p[2])
    /\ CellAt(pre, arg[1][1], arg[1][2]) = Dead
    /\ CellAt(pre, arg[2][1], arg[2][2]) = Alive
    /\ \E row \in Rows(pre), col \in Cols(pre) :
          <<row, col>> \notin ListedPairs(arg) /\ CellAt(Self, row, col) = Dead
    /\ \E row \in Rows(pre), col \in Cols(pre) :
          <<row, col>> \notin ListedPairs(arg) /\ CellAt(Self, row, col) = Alive

\* C7: render() of any grid, a dimension of 0 included, returns the text of
\* the grid and leaves the grid as it was.
RenderIsGridText ==
    (op = "render" /\ WellFormed(pre)) =>
        /\ ~panicked
        /\ out = GridText(pre)
        /\ Self = pre

\* C8: on a grid with width >= 2 and height >= 2, live_neighbor_count(row,
\* col) returns the number of Alive cells over the 8 offsets modulo the
\* dimensions, which is between 0 and 8 and leaves out the cell itself.
CountIsTorusCount ==
    (op = "live_neighbor_count" /\ WellFormed(pre)
        /\ pre.width >= 2 /\ pre.height >= 2) =>
        /\ ~panicked
        /\ out[1] = TorusCount(pre, arg[1], arg[2])
        /\ out[1] \in 0..8

\* A count of 8 around an Alive cell, and the grid is 3 x 3 or larger.
CountWitness ==
    /\ op = "live_neighbor_count"
    /\ ~panicked
    /\ WellFormed(pre)
    /\ pre.width >= 3
    /\ pre.height >= 3
    /\ CellAt(pre, arg[1], arg[2]) = Alive
    /\ out = <<8>>

\* C9: on a grid with width 1 or height 1, live_neighbor_count and tick
\* return, and the count is the number of Alive cells over all 8 offsets
\* modulo the dimensions.
DegenerateCountIsTorusCount ==
    /\ (op = "live_neighbor_count" /\ WellFormed(pre)
           /\ (pre.width = 1 \/ pre.height = 1)) =>
          ~panicked /\ out[1] = TorusCount(pre, arg[1], arg[2])
    /\ (op = "tick" /\ WellFormed(pre) /\ pre.width >= 1 /\ pre.height >= 1
           /\ (pre.width = 1 \/ pre.height = 1)) =>
          ~panicked

\* C10: for a grid with width >= 1 and height >= 1 and every shift (a, b),
\* a < height and b < width (a shift acts modulo the dimensions),
\* live_neighbor_count of the shifted grid at the shifted cell is that of
\* the grid at the cell, and tick() of the shifted grid is the shifted
\* tick() of the grid.
TorusSymmetry ==
    (op = "tick" /\ ~panicked /\ WellFormed(pre)
        /\ pre.width >= 1 /\ pre.height >= 1) =>
        LET count == [rc \in Rows(pre) \X Cols(pre) |->
                         LiveNeighborCount(pre, rc[1], rc[2], overflowChecks)]
        IN  \A a \in Rows(pre), b \in Cols(pre) :
                \A g \in {Shift(pre, a, b)} :
                    /\ \A row \in Rows(pre), col \in Cols(pre) :
                          LiveNeighborCount(g, (row + a) % pre.height,
                                            (col + b) % pre.width, overflowChecks)
                              = count[<<row, col>>]
                    /\ TickOp(g, overflowChecks) =
                          [u |-> Shift(Self, a, b), panic |-> FALSE]

\* A tick that changed a grid of at least 2 rows and 3 columns, where some
\* shift changes the grid before the tick and the grid after it.
SymmetryWitness ==
    /\ op = "tick"
    /\ ~panicked
    /\ WellFormed(pre)
    /\ pre.width >= 3
    /\ pre.height >= 2
    /\ cells # pre.cells
    /\ \E a \in Rows(pre), b \in Cols(pre) :
          Shift(pre, a, b) # pre /\ Shift(Self, a, b) # Self

====
